---- MODULE Spec2Model ----
(***************************************************************************)
(* Model of src/game.py: the carrier ship, the aircraft flight-phase       *)
(* state machine (Aircraft.update) and the fleet manager                   *)
(* (Game.mouseClicked) with the shared counter                             *)
(* Params.Aircraft.AIRCRAFT_COUNT.                                         *)
(*                                                                         *)
(* Numbers.  Times are whole seconds.  Positions are x coordinates in      *)
(* fixed point: the unit is the arrival radius of the code, 0.1, so a      *)
(* world unit is Scale units.  Angles are whole multiples of 0.5 rad, the   *)
(* angle the ship turns in a second; cos and sin are tabulated in          *)
(* hundredths.  The ship starts at (0,0) heading along the x axis.  In     *)
(* the specifications with aircraft the driver delivers the FORWARD and    *)
(* BACKWARD keys only (so Ship._angle stays 0.0 and the ship stays on the  *)
(* x axis) and every click lands on the x axis; the ship turns in          *)
(* SpecShip, which has no aircraft.  An orbiting aircraft leaves the       *)
(* axis; the model keeps its x coordinate.  _angle and linear_speed of an  *)
(* aircraft are written by update() and read by no branch, and placeModel  *)
(* and placeGoalModel only draw: they are not part of the state.           *)
(***************************************************************************)
EXTENDS Integers, Sequences, FiniteSets, TLC

\* ------------------------------------------------------------ parameters
\* Params.Aircraft
LINEAR_SPEED == 2
AIRCRAFT_FLY_TIME == 10
MAX_AIRCRAFT == 5
FLY_AROUND_TARGET == 10
\* Aircraft.__init__: self.refuel_time = 5.0
REFUEL_TIME == 5
\* Aircraft.update: orbit easing denominator, orbit_start_time / 50.0
ORBIT_EASE_TIME == 50
\* Aircraft.update: the arrival radius 0.1 (of the target, of the ship) is
\* the unit of length; a world unit is Scale of them
ARRIVE_DISTANCE == 1
Scale == 10 * ARRIVE_DISTANCE
\* Params.Ship.LINEAR_SPEED = 0.5 world units per second
SHIP_LINEAR_SPEED == Scale \div 2
\* Params.Ship.ANGULAR_SPEED = 0.5 rad per second: one unit of angle
SHIP_ANGULAR_SPEED == 1

\* ---------------------------------------------------------------- bounds
\* the driver's ticks last DtStep seconds
DtStep == 5
\* no tick is taken that would advance a timer of an aircraft beyond
\* MaxTimer (in SpecFlight), beyond MaxFleetTimer (in Spec)
MaxTimer == 20
MaxFleetTimer == 15
\* clicks land on the ship (x = 0) or FarPoint units along the x axis
FarPoint == 50
\* the ship stays within MaxShip units of the origin along each axis
MaxShip == 30
\* the ship's heading stays within MaxAngle units of angle of the x axis
MaxAngle == 10
\* length the fleet list may grow to: in the fleet specification (Spec),
\* and in the flight specification (SpecFlight)
MaxFleet == 6
MaxSortie == 2
\* the ticks of the refuel specification (SpecRefuel) last ShortDt seconds
ShortDt == 2

Dts == {DtStep}
Points == {0, FarPoint}

\* Python None, for the fields that hold a handle or a number otherwise
None == -1
TO_TARGET == "to_target"
ORBIT_AROUND_TARGET == "orbit_around_target"
RETURN_TO_BASE == "return_to_base"
LANDED == "landed"

VARIABLES
    ship_position,      \* Game._ship.position.x (fixed point)
    ship_y,             \* Game._ship.position.y (fixed point)
    ship_angle,         \* Game._ship._angle (units of 0.5 rad)
    ship_input,         \* Game._ship._input: key -> held
    aircraft_list,      \* Game.aircraft_list: sequence of aircraft records
    AIRCRAFT_COUNT,     \* Params.Aircraft.AIRCRAFT_COUNT
    models,             \* framework: the aircraft model handles now allocated
    op                  \* the last event delivered by the driver

vars == <<ship_position, ship_y, ship_angle, ship_input, aircraft_list,
          AIRCRAFT_COUNT, models, op>>

\* ------------------------------------------------------------- Vector2
Abs(x) == IF x < 0 THEN -x ELSE x
Min(a, b) == IF a < b THEN a ELSE b

\* Vector2.magnitude of the difference of two points on the x axis
Magnitude(d) == Abs(d)

\* Vector2.normalize: a zero vector is left as it is
Normalize(d) == IF d > 0 THEN 1 ELSE IF d < 0 THEN -1 ELSE 0

\* ---------------------------------------------------------------- Ship
Keys == {"FORWARD", "BACKWARD", "LEFT", "RIGHT"}
LinearKeys == {"FORWARD", "BACKWARD"}

\* math.cos and math.sin of k * 0.5 rad, k = 0..16, in hundredths
CosTable == <<100, 88, 54, 7, -42, -80, -99, -94, -65, -21, 28, 71, 96, 98,
              75, 35, -15>>
SinTable == <<0, 48, 84, 100, 91, 60, 14, -35, -76, -98, -96, -71, -28, 22,
              66, 94, 99>>
Cos(angle) == CosTable[Abs(angle) + 1]
Sin(angle) == IF angle < 0 THEN -SinTable[-angle + 1] ELSE SinTable[angle + 1]

\* a product in hundredths, rounded toward zero to a whole unit
Hundredths(n) == IF n < 0 THEN -((-n) \div 100) ELSE n \div 100

\* Ship.update: linearSpeed
ShipLinearSpeed(input) ==
    IF input["FORWARD"] THEN SHIP_LINEAR_SPEED
    ELSE IF input["BACKWARD"] THEN -SHIP_LINEAR_SPEED
    ELSE 0

\* an angular speed that does not ask whether the ship moves
ShipAngularSpeedAtRest(input) ==
    IF input["LEFT"] THEN SHIP_ANGULAR_SPEED
    ELSE IF input["RIGHT"] THEN -SHIP_ANGULAR_SPEED
    ELSE 0

\* Ship.update: angularSpeed
ShipAngularSpeed(input) ==
    IF input["LEFT"] /\ ShipLinearSpeed(input) # 0 THEN SHIP_ANGULAR_SPEED
    ELSE IF input["RIGHT"] /\ ShipLinearSpeed(input) # 0 THEN -SHIP_ANGULAR_SPEED
    ELSE 0

\* Ship.update: the new _angle
ShipAngle(angle, input, dt) == angle + ShipAngularSpeed(input) * dt

\* Ship.update(dt): the position and the angle after it; the step is taken
\* along the new heading
ShipUpdate(x, y, angle, input, dt) ==
    LET heading == ShipAngle(angle, input, dt)
        step == ShipLinearSpeed(input) * dt
    IN  [ x |-> x + Hundredths(Cos(heading) * step),
          y |-> y + Hundredths(Sin(heading) * step),
          angle |-> heading ]

\* ----------------------------------------------------------- framework
\* framework.createAircraftModel: a handle not allocated now
CreateAircraftModel(live) == CHOOSE h \in 1..(Cardinality(live) + 1) : h \notin live

\* ------------------------------------------------------------ Aircraft
\* an aircraft created at the origin, wherever the ship is
NewAircraftAtOrigin(position) ==
    [ model |-> None,
      position |-> 0,
      target |-> None,
      time_since_takeoff |-> 0,
      is_landed |-> TRUE,
      time_since_landing |-> None,
      flight_phase |-> TO_TARGET,
      orbit_start_time |-> 0,
      return_to_base_start_time |-> 0,
      should_orbit_around_target |-> FALSE ]

\* Aircraft.__init__(position, angle)
NewAircraft(position) ==
    [ model |-> None,
      position |-> position,
      target |-> None,
      time_since_takeoff |-> 0,
      is_landed |-> TRUE,
      time_since_landing |-> None,
      flight_phase |-> TO_TARGET,
      orbit_start_time |-> 0,
      return_to_base_start_time |-> 0,
      should_orbit_around_target |-> FALSE ]

\* a takeoff that does not ask whether the aircraft is landed
TakeoffAgain(a, h) ==
    [a EXCEPT !.model = h,
              !.time_since_takeoff = 0,
              !.is_landed = FALSE,
              !.time_since_landing = None]

\* Aircraft.takeoff; h is the handle createAircraftModel returns
Takeoff(a, h) ==
    IF a.is_landed
    THEN [a EXCEPT !.model = h,
                   !.time_since_takeoff = 0,
                   !.is_landed = FALSE,
                   !.time_since_landing = None]
    ELSE a

\* a landing that does not ask for the handle
LandedWithoutHandle(a) ==
    IF ~a.is_landed
    THEN [a EXCEPT !.model = None,
                   !.is_landed = TRUE,
                   !.time_since_landing = 0]
    ELSE a

\* Aircraft.landed
Landed(a) ==
    IF ~a.is_landed /\ a.model # None
    THEN [a EXCEPT !.model = None,
                   !.is_landed = TRUE,
                   !.time_since_landing = 0]
    ELSE a

\* Aircraft.refuel: the value it returns (True: the refuel delay is over)
RefuelDone(a, dt) ==
    /\ a.is_landed
    /\ a.time_since_landing + dt >= REFUEL_TIME

\* Aircraft.refuel: the aircraft after the call
Refuel(a, dt) ==
    IF ~a.is_landed
    THEN a
    ELSE [a EXCEPT !.time_since_landing = @ + dt]

\* a flight time limit that is AIRCRAFT_CAN_FLY_AGAIN too long
FlyTimeOverLate(t) == t > AIRCRAFT_FLY_TIME + REFUEL_TIME

\* Aircraft.update: the flight time is used up
FlyTimeOver(t) == t > AIRCRAFT_FLY_TIME

\* Aircraft.update: the point (the target, the ship) is reached
Within(distance) == distance <= ARRIVE_DISTANCE

\* an arrival that orbits whatever the orbit flag says
ArrivalPhaseAlwaysOrbit(should_orbit) == ORBIT_AROUND_TARGET

\* Aircraft.update: the phase that follows to_target at the target
ArrivalPhase(should_orbit) ==
    IF should_orbit THEN ORBIT_AROUND_TARGET ELSE RETURN_TO_BASE

\* Aircraft.update, branch flight_phase == "to_target"
UpdateToTarget(a, dt) ==
    LET t == a.time_since_takeoff + dt
        b == [a EXCEPT !.time_since_takeoff = t]
    IN  IF FlyTimeOver(t)
        THEN [b EXCEPT !.flight_phase = RETURN_TO_BASE]
        ELSE LET direction == Normalize(a.target - a.position)
                 distance == Magnitude(a.target - a.position)
                 \* direction * LINEAR_SPEED * dt * min(1.0, t / AIRCRAFT_FLY_TIME)
                 movement == direction *
                     ((LINEAR_SPEED * Scale * dt * Min(AIRCRAFT_FLY_TIME, t))
                          \div AIRCRAFT_FLY_TIME)
                 c == [b EXCEPT !.position = @ + movement]
             IN  IF Within(distance)
                 THEN IF ArrivalPhase(a.should_orbit_around_target)
                             = ORBIT_AROUND_TARGET
                      THEN [c EXCEPT !.flight_phase = ORBIT_AROUND_TARGET,
                                     !.orbit_start_time = 0]
                      ELSE [c EXCEPT !.flight_phase = RETURN_TO_BASE,
                                     !.return_to_base_start_time = 0]
                 ELSE c

\* orbit_radius * cos(orbit_start_time * orbit_speed) in fixed point, rounded,
\* for orbit_radius 0.7, orbit_speed 0.8 and orbit_start_time = 0, 1, .. 24
OrbitTable ==
    << 7, 5, 0, -5, -7, -5, 1, 5, 7, 4, -1, -6, -7, -4, 1, 6, 7, 4, -2, -6,
       -7, -3, 2, 6, 7 >>

OrbitOffset(t) == OrbitTable[t + 1]

\* an orbit that ends once its time has passed FLY_AROUND_TARGET
OrbitTimeOverLate(t) == t > FLY_AROUND_TARGET

\* Aircraft.update: the orbit has lasted its time
OrbitTimeOver(t) == t >= FLY_AROUND_TARGET

\* Aircraft.update, branch flight_phase == "orbit_around_target"
UpdateOrbit(a, dt) ==
    IF ~a.should_orbit_around_target
    THEN [a EXCEPT !.flight_phase = RETURN_TO_BASE,
                   !.return_to_base_start_time = 0]
    ELSE LET t == a.orbit_start_time + dt
             target_position == a.target + OrbitOffset(t)
             delta == target_position - a.position
             \* (target_position - position) * min(1.0, t / 50.0)
             eased == Normalize(delta) *
                 ((Abs(delta) * Min(ORBIT_EASE_TIME, t)) \div ORBIT_EASE_TIME)
             b == [a EXCEPT !.orbit_start_time = t,
                            !.position = @ + eased]
         IN  IF OrbitTimeOver(t)
             THEN [b EXCEPT !.flight_phase = RETURN_TO_BASE,
                            !.return_to_base_start_time = 0]
             ELSE b

\* Aircraft.update, branch flight_phase == "return_to_base"
UpdateReturnToBase(a, dt, ship) ==
    LET t == a.return_to_base_start_time + dt
        direction_to_base == Normalize(ship - a.position)
        distance_to_base == Magnitude(ship - a.position)
        movement_to_base == direction_to_base *
            ((LINEAR_SPEED * Scale * dt * Min(AIRCRAFT_FLY_TIME, t))
                 \div AIRCRAFT_FLY_TIME)
        b == [a EXCEPT !.return_to_base_start_time = t,
                       !.position = @ + movement_to_base]
    IN  IF Within(distance_to_base)
        THEN Landed([b EXCEPT !.flight_phase = LANDED])
        ELSE b

\* a landed branch that leaves the handle of the takeoff alone
UpdateLandedKeepsHandle(a, dt, h) ==
    LET r == Refuel(a, dt)
    IN  IF RefuelDone(a, dt) THEN Takeoff(r, h) ELSE r

\* Aircraft.update, branch is_landed: refuel, takeoff when it is over, and
\* the handle held after that is destroyed
UpdateLanded(a, dt, h) ==
    LET r == Refuel(a, dt)
        b == IF RefuelDone(a, dt) THEN Takeoff(r, h) ELSE r
    IN  [b EXCEPT !.model = None]

\* Aircraft.update(dt, ship_position_x, ship_position_y)
AircraftUpdate(a, dt, ship, h) ==
    IF ~a.is_landed
    THEN CASE a.flight_phase = TO_TARGET -> UpdateToTarget(a, dt)
           [] a.flight_phase = ORBIT_AROUND_TARGET -> UpdateOrbit(a, dt)
           [] a.flight_phase = RETURN_TO_BASE -> UpdateReturnToBase(a, dt, ship)
           [] OTHER -> a
    ELSE UpdateLanded(a, dt, h)

\* ---------------------------------------------------------------- Game
Fleet == 1..Len(aircraft_list)

\* the handles held by the aircraft of a list
Held(list) == {list[i].model : i \in 1..Len(list)} \ {None}

\* the aircraft of the list that land on this tick
LandingNow(dt) ==
    {i \in Fleet : /\ ~aircraft_list[i].is_landed
                   /\ AircraftUpdate(aircraft_list[i], dt, ship_position, None).is_landed}

\* the aircraft of the list whose refuel() returns True on this tick
Relaunching(dt) == {i \in Fleet : RefuelDone(aircraft_list[i], dt)}

\* Game.update(dt): the ship, then every aircraft in list order, each with
\* the ship's new position.  A relaunch creates a handle; the handles no
\* aircraft holds after the tick are those passed to destroyModel.
Update(dt) ==
    LET ship == ShipUpdate(ship_position, ship_y, ship_angle, ship_input, dt)
        h == CreateAircraftModel(models)
        next == [i \in Fleet |->
                    AircraftUpdate(aircraft_list[i], dt, ship.x, h)]
        created == IF Relaunching(dt) = {} THEN {} ELSE {h}
        destroyed == (Held(aircraft_list) \cup created) \ Held(next)
    IN  /\ ship_position' = ship.x
        /\ ship_y' = ship.y
        /\ ship_angle' = ship.angle
        /\ ship_input' = ship_input
        /\ aircraft_list' = next
        /\ AIRCRAFT_COUNT' = AIRCRAFT_COUNT - Cardinality(Relaunching(dt))
        /\ models' = (models \cup created) \ destroyed
        /\ op' = "update"

\* a capacity test that is off by one
HasCapacityOffByOne == AIRCRAFT_COUNT <= MAX_AIRCRAFT

\* Game.mouseClicked: the capacity test of a primary click
HasCapacity == AIRCRAFT_COUNT < MAX_AIRCRAFT

\* Game.mouseClicked(x, y, True)
LeftClick(x) ==
    /\ IF HasCapacity
       THEN LET h == CreateAircraftModel(models)
                aircraft == Takeoff([NewAircraft(ship_position)
                                        EXCEPT !.target = x], h)
            IN  /\ aircraft_list' = Append(aircraft_list, aircraft)
                /\ AIRCRAFT_COUNT' = AIRCRAFT_COUNT + 1
                /\ models' = models \cup {h}
       ELSE UNCHANGED <<aircraft_list, AIRCRAFT_COUNT, models>>
    /\ UNCHANGED <<ship_position, ship_y, ship_angle, ship_input>>
    /\ op' = "left_click"

\* a re-route of the orbiting aircraft alone
RetargetedOrbitingOnly(a, x, orbiting_aircraft) ==
    [a EXCEPT !.should_orbit_around_target = TRUE,
              !.target = x,
              !.flight_phase = IF orbiting_aircraft /\ @ = ORBIT_AROUND_TARGET
                               THEN TO_TARGET ELSE @]

\* a re-route that restarts the flight clock
RetargetedFromTakeoff(a, x, orbiting_aircraft) ==
    [a EXCEPT !.should_orbit_around_target = TRUE,
              !.target = x,
              !.flight_phase = IF orbiting_aircraft THEN TO_TARGET ELSE @,
              !.time_since_takeoff = IF orbiting_aircraft THEN 0 ELSE @]

\* a secondary click that sends every aircraft to the target again
RetargetedFromAnyPhase(a, x, orbiting_aircraft) ==
    [a EXCEPT !.should_orbit_around_target = TRUE,
              !.target = x,
              !.flight_phase = TO_TARGET]

\* Game.mouseClicked: what a secondary click does to one aircraft
Retargeted(a, x, orbiting_aircraft) ==
    [a EXCEPT !.should_orbit_around_target = TRUE,
              !.target = x,
              !.flight_phase = IF orbiting_aircraft THEN TO_TARGET ELSE @]

\* Game.mouseClicked(x, y, False)
RightClick(x) ==
    LET orbiting_aircraft ==
            \E i \in Fleet : aircraft_list[i].flight_phase = ORBIT_AROUND_TARGET
    IN  /\ aircraft_list' =
            [i \in Fleet |-> Retargeted(aircraft_list[i], x, orbiting_aircraft)]
        /\ UNCHANGED <<AIRCRAFT_COUNT, models, ship_position, ship_y,
                       ship_angle, ship_input>>
        /\ op' = "right_click"

\* Game.keyPressed(key)
KeyPressed(key) ==
    /\ ship_input' = [ship_input EXCEPT ![key] = TRUE]
    /\ UNCHANGED <<ship_position, ship_y, ship_angle, aircraft_list,
                   AIRCRAFT_COUNT, models>>
    /\ op' = "key_pressed"

\* Game.keyReleased(key)
KeyReleased(key) ==
    /\ ship_input' = [ship_input EXCEPT ![key] = FALSE]
    /\ UNCHANGED <<ship_position, ship_y, ship_angle, aircraft_list,
                   AIRCRAFT_COUNT, models>>
    /\ op' = "key_released"

\* the state after Game() and Game.init(): ship at the origin, no key held,
\* empty fleet
Init ==
    /\ ship_position = 0
    /\ ship_y = 0
    /\ ship_angle = 0
    /\ ship_input = [k \in Keys |-> FALSE]
    /\ aircraft_list = <<>>
    /\ AIRCRAFT_COUNT = 0
    /\ models = {}
    /\ op = "init"

\* the timers of the fleet are within T, the ship within its range
WithinBounds(list, ship, T) ==
    /\ \A i \in 1..Len(list) :
          /\ list[i].time_since_takeoff <= T
          /\ list[i].return_to_base_start_time <= T
    /\ 0 <= ship /\ ship <= MaxShip

\* the driver's events, within the bounds
Tick(D, T) ==
    \E dt \in D : Update(dt) /\ WithinBounds(aircraft_list', ship_position', T)
Spawn(P, n) == Len(aircraft_list) < n /\ \E x \in P : LeftClick(x)
Retarget(P) == \E x \in P : RightClick(x)
Press(K) == \E key \in K : KeyPressed(key)
Release(K) == \E key \in K : KeyReleased(key)
\* a tick of the ship alone, every way it may head
Steer(D) ==
    \E dt \in D :
        /\ Abs(ShipAngle(ship_angle, ship_input, dt)) <= MaxAngle
        /\ Update(dt)
        /\ Abs(ship_position') <= MaxShip
        /\ Abs(ship_y') <= MaxShip

\* The fleet: up to MaxFleet aircraft, ticks of DtStep seconds, clicks on the
\* ship, which stays where it is (no key is pressed).
Next == Tick(Dts, MaxFleetTimer) \/ Spawn({0}, MaxFleet) \/ Retarget({0})

Spec == Init /\ [][Next]_vars

\* The flight of up to MaxSortie aircraft: ticks of every length in Dts,
\* clicks on every point of Points, the ship moving forward and backward.
NextFlight ==
    \/ Tick(Dts, MaxTimer) \/ Spawn(Points, MaxSortie) \/ Retarget(Points)
    \/ Press(LinearKeys) \/ Release(LinearKeys)

SpecFlight == Init /\ [][NextFlight]_vars

\* Continued ticks: the fleet is spawned, the ship stays where it is, there
\* is no secondary click, and the driver keeps calling update().
NextLive == Tick(Dts, MaxTimer) \/ Spawn(Points, MaxFleet)

SpecLive == Init /\ [][NextLive]_vars /\ WF_vars(Tick(Dts, MaxTimer))

\* Refuelling over several ticks: ticks of ShortDt seconds, shorter than the
\* refuel delay, clicks on the ship, which stays where it is.
NextRefuel ==
    Tick({ShortDt}, MaxFleetTimer) \/ Spawn({0}, MaxSortie) \/ Retarget({0})

SpecRefuel == Init /\ [][NextRefuel]_vars

\* The ship alone: every key, ticks of every length in Dts, no aircraft.
NextShip == Steer(Dts) \/ Press(Keys) \/ Release(Keys)

SpecShip == Init /\ [][NextShip]_vars

\* ------------------------------------------------------------- claims
Airborne(i) == ~aircraft_list[i].is_landed

\* C1: in every reachable state the shared counter satisfies
\* 0 <= AIRCRAFT_COUNT <= MAX_AIRCRAFT.
C1_CountInRange == 0 <= AIRCRAFT_COUNT /\ AIRCRAFT_COUNT <= MAX_AIRCRAFT

\* the counter is at the cap again after a relaunch freed a slot and a
\* further spawn took it
C1_Witness ==
    /\ AIRCRAFT_COUNT = MAX_AIRCRAFT
    /\ Len(aircraft_list) > MAX_AIRCRAFT

\* C2, as claimed: at most MAX_AIRCRAFT aircraft of the fleet list are not
\* landed.
C2_Original == Cardinality({i \in Fleet : Airborne(i)}) <= MAX_AIRCRAFT

\* C3, as claimed: the update() in which a landed aircraft's refuel timer
\* reaches refuel_time leaves it airborne and in phase to_target.
C3_Original ==
    [][\A i \in Fleet : \A dt \in Dts :
          (Update(dt) /\ aircraft_list[i].is_landed
                /\ aircraft_list[i].time_since_landing + dt >= REFUEL_TIME)
          => (~aircraft_list'[i].is_landed
                /\ aircraft_list'[i].flight_phase = TO_TARGET)]_vars

\* C4: a primary click at AIRCRAFT_COUNT = MAX_AIRCRAFT changes neither the
\* fleet list (its length, its members and every field of them) nor the
\* counter, nor anything else of the game.
C4_DroppedClick ==
    [][(op' = "left_click" /\ AIRCRAFT_COUNT = MAX_AIRCRAFT)
          => UNCHANGED <<aircraft_list, AIRCRAFT_COUNT, models,
                         ship_position, ship_input>>]_vars

\* a primary click was dropped: the counter is at the cap and no aircraft
\* is fresh from a spawn
C4_Witness ==
    /\ op = "left_click"
    /\ AIRCRAFT_COUNT = MAX_AIRCRAFT
    /\ \A i \in Fleet : aircraft_list[i].flight_phase # TO_TARGET

\* C5: a secondary click while some aircraft of the fleet is in
\* orbit_around_target leaves every aircraft of the fleet list in to_target,
\* with the orbit flag set and the click point as target.
C5_FullReroute ==
    [][\A x \in Points :
          (RightClick(x)
             /\ \E i \in Fleet :
                   aircraft_list[i].flight_phase = ORBIT_AROUND_TARGET)
          => /\ Len(aircraft_list') = Len(aircraft_list)
             /\ \A i \in Fleet :
                   /\ aircraft_list'[i].flight_phase = TO_TARGET
                   /\ aircraft_list'[i].should_orbit_around_target
                   /\ aircraft_list'[i].target = x]_vars

\* after a secondary click, an aircraft that was orbiting and a landed one
\* are both in to_target
C5_Witness ==
    /\ op = "right_click"
    /\ \E i, j \in Fleet :
          /\ Airborne(i)
          /\ aircraft_list[i].flight_phase = TO_TARGET
          /\ aircraft_list[i].orbit_start_time > 0
          /\ aircraft_list[j].is_landed
          /\ aircraft_list[j].flight_phase = TO_TARGET

\* C6: an update() that finds an airborne aircraft in to_target with
\* time_since_takeoff > AIRCRAFT_FLY_TIME leaves it in return_to_base,
\* whatever its distance to the target and its orbit flag; and no update()
\* leaves an airborne aircraft in to_target with time_since_takeoff >
\* AIRCRAFT_FLY_TIME, so the tick that takes the flight time over the limit
\* is its last in to_target.
C6_FlyTimeOver ==
    [][op' = "update" =>
          \A i \in Fleet :
             /\ (Airborne(i)
                   /\ aircraft_list[i].flight_phase = TO_TARGET
                   /\ aircraft_list[i].time_since_takeoff > AIRCRAFT_FLY_TIME)
                => aircraft_list'[i].flight_phase = RETURN_TO_BASE
             /\ (~aircraft_list'[i].is_landed
                   /\ aircraft_list'[i].flight_phase = TO_TARGET)
                => aircraft_list'[i].time_since_takeoff <= AIRCRAFT_FLY_TIME]_vars

\* an aircraft at its target, with the orbit flag set, whose flight time was
\* over the limit before the tick, is in return_to_base after it
C6_Witness ==
    /\ op = "update"
    /\ \E i \in Fleet :
          /\ Airborne(i)
          /\ aircraft_list[i].flight_phase = RETURN_TO_BASE
          /\ aircraft_list[i].time_since_takeoff - DtStep > AIRCRAFT_FLY_TIME
          /\ aircraft_list[i].should_orbit_around_target
          /\ aircraft_list[i].position = aircraft_list[i].target

\* C7: an update() that finds an airborne aircraft in to_target within 0.1
\* of its target, its flight time after the tick still <= AIRCRAFT_FLY_TIME,
\* leaves it in orbit_around_target with orbit_start_time 0 if its orbit flag
\* is set, and in return_to_base if it is not.
C7_ArrivalByFlag ==
    [][op' = "update" =>
          \A i \in Fleet :
             (Airborne(i)
                /\ aircraft_list[i].flight_phase = TO_TARGET
                /\ aircraft_list'[i].time_since_takeoff <= AIRCRAFT_FLY_TIME
                /\ Abs(aircraft_list[i].target - aircraft_list[i].position)
                      <= ARRIVE_DISTANCE)
             => IF aircraft_list[i].should_orbit_around_target
                THEN /\ aircraft_list'[i].flight_phase = ORBIT_AROUND_TARGET
                     /\ aircraft_list'[i].orbit_start_time = 0
                ELSE aircraft_list'[i].flight_phase = RETURN_TO_BASE]_vars

\* one tick took an aircraft with the orbit flag into orbit and one without
\* it from its target into return_to_base
C7_Witness ==
    /\ op = "update"
    /\ \E i, j \in Fleet :
          /\ aircraft_list[i].flight_phase = ORBIT_AROUND_TARGET
          /\ aircraft_list[i].orbit_start_time = 0
          /\ Airborne(j)
          /\ aircraft_list[j].flight_phase = RETURN_TO_BASE
          /\ ~aircraft_list[j].should_orbit_around_target
          /\ aircraft_list[j].return_to_base_start_time = 0
          /\ aircraft_list[j].time_since_takeoff <= AIRCRAFT_FLY_TIME

\* C8, as claimed: an update() that finds an airborne aircraft in
\* return_to_base within 0.1 of the ship leaves it in phase landed with
\* is_landed true, no handle and time_since_landing 0, on every sortie.
C8_Original ==
    [][op' = "update" =>
          \A i \in Fleet :
             (Airborne(i)
                /\ aircraft_list[i].flight_phase = RETURN_TO_BASE
                /\ Abs(ship_position' - aircraft_list[i].position)
                      <= ARRIVE_DISTANCE)
             => /\ aircraft_list'[i].flight_phase = LANDED
                /\ aircraft_list'[i].is_landed
                /\ aircraft_list'[i].model = None
                /\ aircraft_list'[i].time_since_landing = 0]_vars

\* C9, as claimed: between events an aircraft of the fleet holds a handle
\* exactly when it is airborne.
C9_Original ==
    \A i \in Fleet : (aircraft_list[i].model # None) <=> Airborne(i)

\* C10, as claimed: under continued ticks every spawned aircraft is landed
\* again and again, and airborne again and again.
C10_Original ==
    \A i \in 1..MaxFleet :
        /\ [](i <= Len(aircraft_list)
                => <>(i <= Len(aircraft_list) /\ aircraft_list[i].is_landed))
        /\ [](i <= Len(aircraft_list)
                => <>(i <= Len(aircraft_list) /\ ~aircraft_list[i].is_landed))

\* C11: a tick on which neither FORWARD nor BACKWARD is held leaves the
\* ship's position (both coordinates) and its angle as they were, whatever
\* the state of LEFT and RIGHT.
C11_ShipAtRest ==
    [][(op' = "update" /\ ~ship_input["FORWARD"] /\ ~ship_input["BACKWARD"])
          => UNCHANGED <<ship_position, ship_y, ship_angle>>]_vars

\* a tick has passed with LEFT held and neither FORWARD nor BACKWARD, the
\* ship being off the x axis and turned away from it
C11_Witness ==
    /\ op = "update"
    /\ ship_input["LEFT"] /\ ~ship_input["FORWARD"] /\ ~ship_input["BACKWARD"]
    /\ ship_angle # 0 /\ ship_y # 0

\* C12: AIRCRAFT_COUNT changes at two points only: a primary click that
\* appends an aircraft adds 1, and a tick takes off 1 for every landed
\* aircraft it relaunches.  A landing, any other tick, a secondary click
\* and a key event leave it as it was, so a landed aircraft keeps its slot
\* until the tick that relaunches it.
C12_CountChanges ==
    [][/\ op' = "left_click"
            => AIRCRAFT_COUNT' = AIRCRAFT_COUNT
                   + (IF Len(aircraft_list') > Len(aircraft_list) THEN 1 ELSE 0)
       /\ op' = "update"
            => AIRCRAFT_COUNT' = AIRCRAFT_COUNT
                   - Cardinality({i \in Fleet : /\ aircraft_list[i].is_landed
                                                /\ ~aircraft_list'[i].is_landed})
       /\ op' \notin {"left_click", "update"}
            => AIRCRAFT_COUNT' = AIRCRAFT_COUNT]_vars

\* after a tick one aircraft is part way through its refuel delay and
\* counted, another has been relaunched and is counted no more
C12_Witness ==
    /\ op = "update"
    /\ \E i, j \in Fleet :
          /\ aircraft_list[i].is_landed
          /\ aircraft_list[i].time_since_landing > 0
          /\ aircraft_list[i].time_since_landing < REFUEL_TIME
          /\ ~aircraft_list[j].is_landed /\ aircraft_list[j].model = None
    /\ AIRCRAFT_COUNT = Len(aircraft_list) - 1

\* C13: a primary click made while AIRCRAFT_COUNT < MAX_AIRCRAFT appends
\* exactly one aircraft at the end of the fleet list: at the ship's current
\* position, its target the click point, airborne, in phase to_target, its
\* flight clock at 0 and its orbit flag clear.  AIRCRAFT_COUNT grows by 1 and
\* every aircraft already in the list is left as it was.
C13_SpawnAppends ==
    [][\A x \in Points :
          (LeftClick(x) /\ AIRCRAFT_COUNT < MAX_AIRCRAFT)
             => /\ Len(aircraft_list') = Len(aircraft_list) + 1
                /\ SubSeq(aircraft_list', 1, Len(aircraft_list)) = aircraft_list
                /\ LET new == aircraft_list'[Len(aircraft_list')]
                   IN  /\ new.position = ship_position
                       /\ new.target = x
                       /\ ~new.is_landed
                       /\ new.flight_phase = TO_TARGET
                       /\ new.time_since_takeoff = 0
                       /\ ~new.should_orbit_around_target
                /\ AIRCRAFT_COUNT' = AIRCRAFT_COUNT + 1]_vars

\* a second aircraft has just been spawned from a ship that has left the
\* origin, the first one being elsewhere and part way through its flight
C13_Witness ==
    /\ op = "left_click"
    /\ ship_position # 0
    /\ Len(aircraft_list) = 2
    /\ aircraft_list[2].position = ship_position
    /\ aircraft_list[2].time_since_takeoff = 0
    /\ aircraft_list[2].target = FarPoint
    /\ aircraft_list[1].position # ship_position
    /\ aircraft_list[1].time_since_takeoff > 0

\* C14: a tick takes an orbiting aircraft to return_to_base, with
\* return_to_base_start_time reset to 0, when its orbit flag is clear or
\* when its orbit time, counted from the entry into the orbit and advanced
\* by this tick, has reached FLY_AROUND_TARGET; otherwise the aircraft
\* stays in orbit and its orbit time grows.  An aircraft in orbit thus has
\* an orbit time below FLY_AROUND_TARGET at the start of every tick: it
\* leaves on the first tick that reaches the limit and never orbits
\* longer than FLY_AROUND_TARGET seconds plus a tick.
C14_OrbitExit ==
    [][/\ \A i \in 1..Len(aircraft_list') :
             aircraft_list'[i].flight_phase = ORBIT_AROUND_TARGET
                => aircraft_list'[i].orbit_start_time < FLY_AROUND_TARGET
       /\ op' = "update"
            => \A i \in Fleet :
                 (Airborne(i) /\ aircraft_list[i].flight_phase = ORBIT_AROUND_TARGET)
                    => IF \/ ~aircraft_list[i].should_orbit_around_target
                          \/ aircraft_list'[i].orbit_start_time >= FLY_AROUND_TARGET
                       THEN /\ aircraft_list'[i].flight_phase = RETURN_TO_BASE
                            /\ aircraft_list'[i].return_to_base_start_time = 0
                       ELSE /\ aircraft_list'[i].flight_phase = ORBIT_AROUND_TARGET
                            /\ aircraft_list'[i].orbit_start_time
                                   > aircraft_list[i].orbit_start_time]_vars

\* a tick has just ended an orbit at its time limit
C14_Witness ==
    /\ op = "update"
    /\ \E i \in Fleet :
          /\ Airborne(i)
          /\ aircraft_list[i].flight_phase = RETURN_TO_BASE
          /\ aircraft_list[i].return_to_base_start_time = 0
          /\ aircraft_list[i].should_orbit_around_target
          /\ aircraft_list[i].orbit_start_time >= FLY_AROUND_TARGET
          /\ aircraft_list[i].time_since_takeoff <= AIRCRAFT_FLY_TIME

\* C15: a secondary click made while no aircraft of the fleet is in phase
\* orbit_around_target sets the orbit flag and the target (the click point)
\* of every aircraft and changes nothing else: every other field of every
\* aircraft, the length of the list, AIRCRAFT_COUNT, the handles and the
\* ship are as they were.
C15_RetargetOnly ==
    [][\A x \in Points :
          (/\ RightClick(x)
           /\ \A i \in Fleet :
                 aircraft_list[i].flight_phase # ORBIT_AROUND_TARGET)
             => /\ Len(aircraft_list') = Len(aircraft_list)
                /\ \A i \in Fleet :
                      aircraft_list'[i] =
                          [aircraft_list[i] EXCEPT
                              !.should_orbit_around_target = TRUE,
                              !.target = x]
                /\ UNCHANGED <<AIRCRAFT_COUNT, models, ship_position, ship_y,
                               ship_angle, ship_input>>]_vars

\* a secondary click has just changed the target of an aircraft on its way
\* back to the ship and of a landed one, and left them in their phases
C15_Witness ==
    /\ op = "right_click"
    /\ \E i, j \in Fleet :
          /\ Airborne(i)
          /\ aircraft_list[i].flight_phase = RETURN_TO_BASE
          /\ aircraft_list[i].target = FarPoint
          /\ aircraft_list[i].should_orbit_around_target
          /\ aircraft_list[j].is_landed
          /\ aircraft_list[j].flight_phase = LANDED
          /\ aircraft_list[j].target = FarPoint

\* C16: takeoff() and landed() are idempotent.  On every aircraft of the
\* fleet, takeoff() of an airborne aircraft and landed() of a landed one
\* change no field and leave its handle alone, and a second call in a row
\* changes nothing the first has not.
C16_Idempotent ==
    \A i \in Fleet :
        LET a == aircraft_list[i]
            h == CreateAircraftModel(models)
            again == CreateAircraftModel(models \cup {h})
        IN  /\ ~a.is_landed => Takeoff(a, h) = a
            /\ a.is_landed => Landed(a) = a
            /\ Takeoff(Takeoff(a, h), again) = Takeoff(a, h)
            /\ Landed(Landed(a)) = Landed(a)

\* the fleet holds a landed aircraft, an airborne one with its handle and
\* one relaunched without a handle
C16_Witness ==
    \E i, j, k \in Fleet :
        /\ aircraft_list[i].is_landed
        /\ aircraft_list[i].time_since_landing = 0
        /\ Airborne(j) /\ aircraft_list[j].model # None
        /\ aircraft_list[j].time_since_takeoff > 0
        /\ Airborne(k) /\ aircraft_list[k].model = None

\* C17: at every event boundary the is_landed flag of an aircraft and its
\* flight phase agree: is_landed holds exactly when flight_phase is
\* "landed".
C17_Original ==
    \A i \in Fleet :
        aircraft_list[i].is_landed <=> aircraft_list[i].flight_phase = LANDED

\* an aircraft that has completed a refuel: relaunched, it flies without a
\* handle
Refuelled(i) == Airborne(i) /\ aircraft_list[i].model = None

\* C18: an aircraft is refuelled once at most.  The tick that relaunches a
\* landed aircraft (and takes 1 off AIRCRAFT_COUNT for it) leaves it
\* refuelled, a refuelled aircraft stays so for good (it never lands again,
\* so no later tick takes 1 off for it), and AIRCRAFT_COUNT is at every
\* event boundary the number of aircraft of the fleet that have not yet
\* completed a refuel.
C18_RefuelledOnce ==
    [][/\ \A i \in Fleet :
             /\ Refuelled(i) => Refuelled(i)'
             /\ (aircraft_list[i].is_landed /\ ~aircraft_list'[i].is_landed)
                    => Refuelled(i)'
       /\ AIRCRAFT_COUNT' =
             Cardinality({i \in 1..Len(aircraft_list') : ~Refuelled(i)'})]_vars

\* a refuelled aircraft has been sent to a target again and has come back
\* over the ship, where a tick has left it airborne; another aircraft is
\* still on its first sortie
C18_Witness ==
    /\ op = "update"
    /\ \E i, j \in Fleet :
          /\ Refuelled(i)
          /\ aircraft_list[i].flight_phase = LANDED
          /\ aircraft_list[i].return_to_base_start_time > REFUEL_TIME
          /\ Airborne(j) /\ aircraft_list[j].model # None
    /\ AIRCRAFT_COUNT < Len(aircraft_list)

\* C19: a re-route does not restart the flight clock.  time_since_takeoff
\* of an aircraft changes on a tick only: it is set to 0 by the takeoff of
\* the relaunch, and it grows while the aircraft is airborne in to_target.
\* A tick that takes the clock of an airborne aircraft in to_target beyond
\* AIRCRAFT_FLY_TIME, or finds it there, moves the aircraft nowhere and
\* leaves it in return_to_base, not in to_target and not in orbit: so does
\* the first tick after a re-route made when the flight time was over.
C19_ClockKept ==
    [][\A i \in Fleet :
          /\ aircraft_list'[i].time_since_takeoff
                 # aircraft_list[i].time_since_takeoff
                => /\ op' = "update"
                   /\ \/ /\ aircraft_list[i].is_landed
                         /\ ~aircraft_list'[i].is_landed
                         /\ aircraft_list'[i].time_since_takeoff = 0
                      \/ /\ Airborne(i)
                         /\ aircraft_list[i].flight_phase = TO_TARGET
                         /\ aircraft_list'[i].time_since_takeoff
                                > aircraft_list[i].time_since_takeoff
          /\ (/\ op' = "update"
              /\ Airborne(i)
              /\ aircraft_list[i].flight_phase = TO_TARGET
              /\ aircraft_list'[i].time_since_takeoff > AIRCRAFT_FLY_TIME)
                => /\ aircraft_list'[i].flight_phase = RETURN_TO_BASE
                   /\ aircraft_list'[i].position = aircraft_list[i].position]_vars

\* an aircraft that was re-routed to a far target when its flight time was
\* over has had its tick: it is in return_to_base, where it was, its clock
\* further on
C19_Witness ==
    /\ op = "update"
    /\ \E i \in Fleet :
          /\ Airborne(i)
          /\ aircraft_list[i].flight_phase = RETURN_TO_BASE
          /\ aircraft_list[i].time_since_takeoff >= 2 * AIRCRAFT_FLY_TIME
          /\ aircraft_list[i].target = FarPoint
          /\ aircraft_list[i].position = 0
          /\ aircraft_list[i].orbit_start_time > 0

RefuelTimerSet ==
    /\ AIRCRAFT_COUNT \in Int
    /\ \A i \in Fleet : aircraft_list[i].is_landed => aircraft_list[i].time_since_landing # None
====
